---- MODULE Spec2Model ----
(***************************************************************************)
(* The decision-and-mitigation engine of the Cloud Threat Detection        *)
(* System (src/app.py): the two endpoints that decide on a traffic record, *)
(* handle_request (/api/request) and trigger_payload                       *)
(* (/api/users/<id>/trigger-payload), their rule classifier, and the       *)
(* mitigation ledger they consult (is_blocked) and update (mitigate).      *)
(*                                                                         *)
(* Confidences are integers scaled by 100000 (0.95 is 95000), so that      *)
(* 0.70 + rate/1000, 0.75 + sbytes/100000 and 0.80 + ct_dst_ltm/500 are    *)
(* exact for integer inputs.                                               *)
(*                                                                         *)
(* mitigation/actions.py (mitigate, is_blocked) is not among the source    *)
(* files; the ledger and the policy are modelled from spec.md 3, 4.3, 4.4. *)
(***************************************************************************)
EXTENDS Integers, FiniteSets, Sequences, TLC

\* Number of decide calls (request-handler threads) of one execution.
NumCalls == 2

Calls == 1..NumCalls

\* Source addresses (ledger keys).
Addrs == {"10.0.0.1", "10.0.0.2"}

(***************************************************************************)
(* JSON values of a payload field: a key may be absent, or hold a number   *)
(* or a string.  Python's dynamic typing is kept as a tag, so that a       *)
(* comparison of a string with a number can raise as it does in the code.  *)
(***************************************************************************)
Absent == [k |-> "absent", n |-> 0, s |-> ""]

I(x) == [k |-> "int", n |-> x, s |-> ""]

S(x) == [k |-> "str", n |-> 0, s |-> x]

Fields == {"rate", "sbytes", "protocol", "state", "ct_dst_ltm", "dpkts", "dur"}

\* A payload holding only the given keys (a partial JSON object).
Payload(f) == [x \in Fields |-> IF x \in DOMAIN f THEN f[x] ELSE Absent]

\* dict.get(key, default)
Get(payload, key, default) ==
    IF payload[key].k = "absent" THEN default ELSE payload[key]

\* str.lower() on the strings the model uses
Lower(x) ==
    CASE x = "TCP" -> "tcp"
      [] x = "UDP" -> "udp"
      [] x = "REQ" -> "req"
      [] x = "CON" -> "con"
      [] OTHER -> x

\* str.upper() on the strings the model uses
Upper(x) ==
    CASE x = "tcp" -> "TCP"
      [] x = "udp" -> "UDP"
      [] x = "req" -> "REQ"
      [] x = "con" -> "CON"
      [] OTHER -> x

(***************************************************************************)
(* Python comparisons and short-circuit connectives, three-valued: "T",    *)
(* "F", or "E" when the evaluation raises (TypeError: '>' not supported    *)
(* between 'str' and 'int').  == never raises.                             *)
(***************************************************************************)
Gt(v, bound) ==
    IF v.k # "int" THEN "E" ELSE IF v.n > bound THEN "T" ELSE "F"

EqInt(v, x) == IF v.k = "int" /\ v.n = x THEN "T" ELSE "F"

EqStr(x, y) == IF x = y THEN "T" ELSE "F"

\* a or b: b is evaluated only when a is false
PyOr(a, b) == IF a = "F" THEN b ELSE a

\* a and b: b is evaluated only when a is true
PyAnd(a, b) == IF a = "T" THEN b ELSE a

Min(a, b) == IF a <= b THEN a ELSE b

(***************************************************************************)
(* Lines 83-87: the handler's reads of the payload.  .lower() and .upper() *)
(* raise AttributeError on a value that is not a string.                   *)
(***************************************************************************)
ReadFields(payload) ==
    LET protocol == Get(payload, "protocol", S("tcp"))
        state    == Get(payload, "state", S(""))
    IN  [error      |-> protocol.k # "str" \/ state.k # "str",
         rate       |-> Get(payload, "rate", I(0)),
         sbytes     |-> Get(payload, "sbytes", I(0)),
         protocol   |-> Lower(protocol.s),
         state      |-> Upper(state.s),
         ct_dst_ltm |-> Get(payload, "ct_dst_ltm", I(0)),
         dpkts      |-> Get(payload, "dpkts", I(0)),
         dur        |-> Get(payload, "dur", I(0))]

\* line 96
DoSRule(r) ==
    PyOr(Gt(r.rate, 200), PyAnd(Gt(r.sbytes, 50000), Gt(r.rate, 50)))

\* line 103
ExploitRule(r) ==
    PyOr(Gt(r.sbytes, 70000),
         PyAnd(EqStr(r.protocol, "tcp"), Gt(r.sbytes, 50000)))

\* line 110
ReconRule(r) ==
    PyOr(Gt(r.ct_dst_ltm, 100),
         PyAnd(EqStr(r.state, "REQ"), EqInt(r.dpkts, 0)))

\* line 117
BackdoorRule(r) ==
    PyAnd(Gt(r.dur, 100), Gt(r.sbytes, 100000))

\* The handler's locals after lines 90-121.
Verdict(is_attack, name, label, conf) ==
    [error |-> FALSE, is_attack |-> is_attack, attack_name |-> name,
     attack_label |-> label, confidence |-> conf]

\* An exception left the try block before a verdict was reached.
Raised ==
    [error |-> TRUE, is_attack |-> FALSE, attack_name |-> "-",
     attack_label |-> -1, confidence |-> -1]

\* The DoS confidence without its clamp.
DoSConfidenceUnclamped(rate) == 70000 + 100 * rate

\* line 100: min(0.95, 0.70 + rate / 1000)
DoSConfidence(rate) == Min(95000, 70000 + 100 * rate)

\* line 107: min(0.95, 0.75 + sbytes / 100000)
ExploitConfidence(sbytes) == Min(95000, 75000 + sbytes)

\* line 114: min(0.92, 0.80 + ct_dst_ltm / 500)
ReconConfidence(ct_dst_ltm) == Min(92000, 80000 + 200 * ct_dst_ltm)

\* lines 90-93: the locals when no rule matches
NormalVerdict == Verdict(FALSE, "Normal", 0, 50000)

\* lines 97-100
DoSVerdict(r) == Verdict(TRUE, "DoS", 1, DoSConfidence(r.rate.n))

\* The Exploit branch with the label next to DoS's, 3.
ExploitVerdictLabel3(r) ==
    Verdict(TRUE, "Exploits", 3, ExploitConfidence(r.sbytes.n))

\* lines 104-107
ExploitVerdict(r) ==
    Verdict(TRUE, "Exploits", 2, ExploitConfidence(r.sbytes.n))

\* lines 111-114
ReconVerdict(r) ==
    Verdict(TRUE, "Reconnaissance", 4, ReconConfidence(r.ct_dst_ltm.n))

\* lines 118-121
BackdoorVerdict == Verdict(TRUE, "Backdoor", 6, 88000)

\* Classify with the Exploit rule tried before the DoS rule.
ClassifyExploitFirst(payload) ==
    LET r == ReadFields(payload)
    IN  IF r.error THEN Raised
        ELSE IF ExploitRule(r) = "E" THEN Raised
        ELSE IF ExploitRule(r) = "T" THEN ExploitVerdict(r)
        ELSE IF DoSRule(r) = "E" THEN Raised
        ELSE IF DoSRule(r) = "T" THEN DoSVerdict(r)
        ELSE IF ReconRule(r) = "E" THEN Raised
        ELSE IF ReconRule(r) = "T" THEN ReconVerdict(r)
        ELSE IF BackdoorRule(r) = "E" THEN Raised
        ELSE IF BackdoorRule(r) = "T" THEN BackdoorVerdict
        ELSE NormalVerdict

(***************************************************************************)
(* Lines 83-121 (and 382-419, the same text): the if/elif chain.  A rule   *)
(* is evaluated only when every rule before it was false, and raises when  *)
(* it compares a value that is not a number.                               *)
(***************************************************************************)
Classify(payload) ==
    LET r == ReadFields(payload)
    IN  IF r.error THEN Raised
        ELSE IF DoSRule(r) = "E" THEN Raised
        ELSE IF DoSRule(r) = "T" THEN DoSVerdict(r)
        ELSE IF ExploitRule(r) = "E" THEN Raised
        ELSE IF ExploitRule(r) = "T" THEN ExploitVerdict(r)
        ELSE IF ReconRule(r) = "E" THEN Raised
        ELSE IF ReconRule(r) = "T" THEN ReconVerdict(r)
        ELSE IF BackdoorRule(r) = "E" THEN Raised
        ELSE IF BackdoorRule(r) = "T" THEN BackdoorVerdict
        ELSE NormalVerdict

(***************************************************************************)
(* generate_test_payload (lines 557-629).  Every random.randint and        *)
(* random.uniform is one draw; a draw takes the low or the high end of its *)
(* range.  The keys the classifier never reads (dst_ip, timestamp, dttl,   *)
(* sttl, spkts) are left out.  dur is a float in the code and is only ever *)
(* compared with 100: it is kept as its integer part.                      *)
(***************************************************************************)
Draws == [rate : {"lo", "hi"}, sbytes : {"lo", "hi"},
          dur : {"lo", "hi"}, ct_dst_ltm : {"lo", "hi"}]

\* The draw that takes the low end of every range.
LowDraws == {d \in Draws : d.rate = "lo" /\ d.sbytes = "lo" /\ d.dur = "lo"
                            /\ d.ct_dst_ltm = "lo"}

Rand(lo, hi, draw) == IF draw = "lo" THEN lo ELSE hi

\* attack_type values sent to the trigger endpoint (after .lower(), line 345)
AttackTypes == {"dos", "exploit", "reconnaissance", "backdoor", "normal"}

generate_test_payload(attack_type, d) ==
    LET base == [protocol |-> S("tcp"), state |-> S("CON"), dpkts |-> I(10)]
        upd(rate, sbytes, dur, ct) ==
            [rate       |-> I(Rand(rate[1], rate[2], d.rate)),
             sbytes     |-> I(Rand(sbytes[1], sbytes[2], d.sbytes)),
             dur        |-> I(Rand(dur[1], dur[2], d.dur)),
             ct_dst_ltm |-> I(Rand(ct[1], ct[2], d.ct_dst_ltm))]
    IN  CASE attack_type = "dos" ->
               Payload(base @@ upd(<<250, 500>>, <<60000, 100000>>,
                                   <<0, 2>>, <<10, 50>>))
          [] attack_type = "exploit" ->
               Payload(base @@ upd(<<20, 100>>, <<75000, 150000>>,
                                   <<1, 10>>, <<5, 20>>))
          [] attack_type = "reconnaissance" ->
               Payload([protocol |-> S("tcp"), state |-> S("REQ"),
                        dpkts |-> I(0)]
                       @@ upd(<<50, 150>>, <<100, 1000>>,
                              <<0, 0>>, <<150, 300>>))
          [] attack_type = "backdoor" ->
               Payload(base @@ upd(<<10, 50>>, <<120000, 200000>>,
                                   <<150, 500>>, <<1, 5>>))
          [] OTHER ->
               Payload(base @@ upd(<<1, 50>>, <<100, 10000>>,
                                   <<0, 5>>, <<1, 10>>))

(***************************************************************************)
(* The mitigation ledger and policy (mitigation/actions.py), from          *)
(* spec.md 3, 4.3 and 4.4.  An address never seen has the entry            *)
(* get_or_create would make for it.                                        *)
(***************************************************************************)
NewEntry == [blocked |-> FALSE, violation_count |-> 0, last_action |-> "None"]

\* The labels of the attack categories; any other label is a non-attack.
AttackLabels == {1, 2, 4, 6}

is_blocked(l, addr) == l[addr].blocked

\* The policy recording its action without setting the blocked flag.
mitigate_without_flag(l, addr, label) ==
    IF label \notin AttackLabels
    THEN [ledger |-> l, action |-> "None"]
    ELSE [ledger |-> [l EXCEPT ![addr] =
                        [blocked |-> FALSE,
                         violation_count |-> @.violation_count + 1,
                         last_action |-> "Block"]],
          action |-> "Block"]

\* record_and_decide: one atomic read-modify-write of the address's entry.
\* Returns the new ledger and the MitigationDecision's action.
mitigate(l, addr, label) ==
    IF label \notin AttackLabels
    THEN [ledger |-> l, action |-> "None"]
    ELSE LET action == IF l[addr].blocked THEN "EscalatedBlock" ELSE "Block"
         IN  [ledger |-> [l EXCEPT ![addr] =
                            [blocked |-> TRUE,
                             violation_count |-> @.violation_count + 1,
                             last_action |-> action]],
              action |-> action]

(***************************************************************************)
(* State.                                                                  *)
(*   pc[c]   position of call c: "idle" (not yet arrived), "received"      *)
(*           (payload and src_ip bound, before the is_blocked check),      *)
(*           "passed" (is_blocked returned false), "done" (responded).     *)
(*   req[c]  what call c was given: the endpoint, the source address, the  *)
(*           payload, the attack_type (trigger endpoint); `raises`, the    *)
(*           writes of the logging sink that raise while c runs; and       *)
(*           `after`, the calls that had already responded when c arrived. *)
(*   out[c]  what call c did: the response, the handler's locals, the      *)
(*           policy invocations and the log writes it made.                *)
(*   ledger  the mitigation ledger, shared by all calls.                   *)
(***************************************************************************)
VARIABLES pc, req, out, ledger

vars == <<pc, req, out, ledger>>

EmptyPayload == [x \in Fields |-> Absent]

NoReq == [ep |-> "-", src_ip |-> "-", payload |-> EmptyPayload,
          attack_type |-> "-", raises |-> {}, after |-> {}]

\* The locals before the rules have run.
NoVerdict ==
    [error |-> FALSE, is_attack |-> FALSE, attack_name |-> "-",
     attack_label |-> -1, confidence |-> -1]

\* A response and the side effects of the call that made it.  attack_type,
\* attack_label and confidence are the response's keys ("-" and -1: the
\* response has no such key); mitigation is the action of the
\* MitigationDecision in the response ("-": none).
Response(status, http, v, r_type, r_label, r_conf, action, calls, logs) ==
    [status |-> status, http |-> http, verdict |-> v,
     attack_type |-> r_type, attack_label |-> r_label,
     confidence |-> r_conf, mitigation |-> action,
     policy_calls |-> calls, logs |-> logs]

NoOut == Response("-", 0, NoVerdict, "-", -1, -1, "-", 0, {})

\* lines 76-79 and 376-379
BlockedResponse == Response("BLOCKED", 403, NoVerdict, "-", -1, -1, "-", 0, {})

Init ==
    /\ pc = [c \in Calls |-> "idle"]
    /\ req = [c \in Calls |-> NoReq]
    /\ out = [c \in Calls |-> NoOut]
    /\ ledger = [a \in Addrs |-> NewEntry]

\* Calls are numbered in their order of arrival.
Arrives(c) == pc[c] = "idle" /\ (c > 1 => pc[c - 1] # "idle")

Responded == {d \in Calls : pc[d] = "done"}

(***************************************************************************)
(* /api/request: handle_request (lines 70-152).                            *)
(***************************************************************************)
handle_request_receive(c, src_ip, payload, raises) ==
    /\ Arrives(c)
    /\ req' = [req EXCEPT ![c] = [ep |-> "request", src_ip |-> src_ip,
                                  payload |-> payload, attack_type |-> "-",
                                  raises |-> raises, after |-> Responded]]
    /\ pc' = [pc EXCEPT ![c] = "received"]
    /\ UNCHANGED <<out, ledger>>

\* handle_request without the check of line 75.
handle_request_blocked_never(l, src_ip) == FALSE

\* line 75: if is_blocked(src_ip)
handle_request_blocked(l, src_ip) == is_blocked(l, src_ip)

handle_request_check(c) ==
    /\ pc[c] = "received"
    /\ req[c].ep = "request"
    /\ IF handle_request_blocked(ledger, req[c].src_ip)
       THEN /\ out' = [out EXCEPT ![c] = BlockedResponse]
            /\ pc' = [pc EXCEPT ![c] = "done"]
       ELSE /\ pc' = [pc EXCEPT ![c] = "passed"]
            /\ UNCHANGED out
    /\ UNCHANGED <<req, ledger>>

\* handle_request mitigating whatever the verdict (without `if is_attack`).
handle_request_decide_always_mitigates(l, src_ip, payload, raises) ==
    LET v == Classify(payload)
        m == mitigate(l, src_ip, v.attack_label)
    IN  IF v.error
        THEN [ledger |-> l,
              out |-> Response("ERROR", 500, v, "-", -1, -1, "-", 0, {})]
        ELSE [ledger |-> m.ledger,
              out |-> Response(IF v.is_attack THEN "THREAT" ELSE "NORMAL", 200,
                               v, v.attack_name, v.attack_label, v.confidence,
                               m.action, 1, {"threat", "mitigation"})]

\* handle_request blocking every address of the ledger on a threat.
handle_request_decide_blocks_all(l, src_ip, payload, raises) ==
    LET v == Classify(payload)
        m == mitigate(l, src_ip, v.attack_label)
    IN  IF v.error
        THEN [ledger |-> l,
              out |-> Response("ERROR", 500, v, "-", -1, -1, "-", 0, {})]
        ELSE IF v.is_attack
        THEN [ledger |-> [a \in DOMAIN l |->
                             mitigate(l, a, v.attack_label).ledger[a]],
              out |-> Response("THREAT", 200, v, v.attack_name, v.attack_label,
                               v.confidence, m.action, 1,
                               {"threat", "mitigation"})]
        ELSE [ledger |-> l,
              out |-> Response("NORMAL", 200, v, "-", -1, -1, "-", 0,
                               {"activity"})]

\* handle_request forgiving an address whose record is Normal.
handle_request_decide_forgives(l, src_ip, payload, raises) ==
    LET v == Classify(payload)
        m == mitigate(l, src_ip, v.attack_label)
    IN  IF v.error
        THEN [ledger |-> l,
              out |-> Response("ERROR", 500, v, "-", -1, -1, "-", 0, {})]
        ELSE IF v.is_attack
        THEN [ledger |-> m.ledger,
              out |-> Response("THREAT", 200, v, v.attack_name, v.attack_label,
                               v.confidence, m.action, 1,
                               {"threat", "mitigation"})]
        ELSE [ledger |-> [l EXCEPT ![src_ip] = NewEntry],
              out |-> Response("NORMAL", 200, v, "-", -1, -1, "-", 0,
                               {"activity"})]

\* lines 81-152: the try block, as a function of the ledger it finds and of
\* the writes of the logging sink that raise.  Whatever is raised inside the
\* block, by the rules or by log_threat (line 125), log_mitigation (line 129)
\* or log_activity (line 142), ends in the except clause of lines 148-152.
handle_request_decide(l, src_ip, payload, raises) ==
    LET v == Classify(payload)
        m == mitigate(l, src_ip, v.attack_label)
    IN  IF v.error
        THEN [ledger |-> l,
              out |-> Response("ERROR", 500, v, "-", -1, -1, "-", 0, {})]
        ELSE IF v.is_attack /\ "log_threat" \in raises
        THEN [ledger |-> l,
              out |-> Response("ERROR", 500, v, "-", -1, -1, "-", 0, {})]
        ELSE IF v.is_attack /\ "log_mitigation" \in raises
        THEN [ledger |-> m.ledger,
              out |-> Response("ERROR", 500, v, "-", -1, -1, "-", 1,
                               {"threat"})]
        ELSE IF v.is_attack
        THEN [ledger |-> m.ledger,
              out |-> Response("THREAT", 200, v, v.attack_name, v.attack_label,
                               v.confidence, m.action, 1,
                               {"threat", "mitigation"})]
        ELSE IF "log_activity" \in raises
        THEN [ledger |-> l,
              out |-> Response("ERROR", 500, v, "-", -1, -1, "-", 0, {})]
        ELSE [ledger |-> l,
              out |-> Response("NORMAL", 200, v, "-", -1, -1, "-", 0,
                               {"activity"})]

handle_request_detect(c) ==
    /\ pc[c] = "passed"
    /\ req[c].ep = "request"
    /\ LET d == handle_request_decide(ledger, req[c].src_ip, req[c].payload,
                                      req[c].raises)
       IN  /\ ledger' = d.ledger
           /\ out' = [out EXCEPT ![c] = d.out]
    /\ pc' = [pc EXCEPT ![c] = "done"]
    /\ UNCHANGED req

(***************************************************************************)
(* /api/users/<device_id>/trigger-payload: trigger_payload (lines          *)
(* 342-476).  The device is known by its ip_address; the device registry   *)
(* and the real payload transmission are outside the engine.               *)
(***************************************************************************)
trigger_payload_receive(c, ip_address, attack_type, d, raises) ==
    /\ Arrives(c)
    /\ req' = [req EXCEPT ![c] =
                 [ep |-> "trigger", src_ip |-> ip_address,
                  payload |-> generate_test_payload(attack_type, d),
                  attack_type |-> attack_type, raises |-> raises,
                  after |-> Responded]]
    /\ pc' = [pc EXCEPT ![c] = "received"]
    /\ UNCHANGED <<out, ledger>>

\* trigger_payload without the check of line 375.
trigger_payload_blocked_never(l, src_ip) == FALSE

\* line 375: if is_blocked(payload["src_ip"])
trigger_payload_blocked(l, src_ip) == is_blocked(l, src_ip)

trigger_payload_check(c) ==
    /\ pc[c] = "received"
    /\ req[c].ep = "trigger"
    /\ IF trigger_payload_blocked(ledger, req[c].src_ip)
       THEN /\ out' = [out EXCEPT ![c] = BlockedResponse]
            /\ pc' = [pc EXCEPT ![c] = "done"]
       ELSE /\ pc' = [pc EXCEPT ![c] = "passed"]
            /\ UNCHANGED out
    /\ UNCHANGED <<req, ledger>>

\* trigger_payload reporting the threat of a simulation without mitigating it.
trigger_payload_decide_detect_only(l, src_ip, payload, raises) ==
    LET v == Classify(payload)
    IN  IF v.error
        THEN [ledger |-> l,
              out |-> Response("ERROR", 500, v, "-", -1, -1, "-", 0, {})]
        ELSE IF v.is_attack
        THEN [ledger |-> l,
              out |-> Response("THREAT", 200, v, v.attack_name, v.attack_label,
                               v.confidence, "Block", 0, {"threat"})]
        ELSE [ledger |-> l,
              out |-> Response("NORMAL", 200, v, "Normal", -1, 95000, "-", 0,
                               {"activity"})]

\* lines 381-476: the try block; log_threat at line 425, log_mitigation at
\* line 429, log_activity at line 454, the except clause at lines 472-476.
trigger_payload_decide(l, src_ip, payload, raises) ==
    LET v == Classify(payload)
        m == mitigate(l, src_ip, v.attack_label)
    IN  IF v.error
        THEN [ledger |-> l,
              out |-> Response("ERROR", 500, v, "-", -1, -1, "-", 0, {})]
        ELSE IF v.is_attack /\ "log_threat" \in raises
        THEN [ledger |-> l,
              out |-> Response("ERROR", 500, v, "-", -1, -1, "-", 0, {})]
        ELSE IF v.is_attack /\ "log_mitigation" \in raises
        THEN [ledger |-> m.ledger,
              out |-> Response("ERROR", 500, v, "-", -1, -1, "-", 1,
                               {"threat"})]
        ELSE IF v.is_attack
        THEN [ledger |-> m.ledger,
              out |-> Response("THREAT", 200, v, v.attack_name, v.attack_label,
                               v.confidence, m.action, 1,
                               {"threat", "mitigation"})]
        ELSE IF "log_activity" \in raises
        THEN [ledger |-> l,
              out |-> Response("ERROR", 500, v, "-", -1, -1, "-", 0, {})]
        ELSE [ledger |-> l,
              out |-> Response("NORMAL", 200, v, "Normal", -1, 95000, "-", 0,
                               {"activity"})]

trigger_payload_detect(c) ==
    /\ pc[c] = "passed"
    /\ req[c].ep = "trigger"
    /\ LET d == trigger_payload_decide(ledger, req[c].src_ip, req[c].payload,
                                       req[c].raises)
       IN  /\ ledger' = d.ledger
           /\ out' = [out EXCEPT ![c] = d.out]
    /\ pc' = [pc EXCEPT ![c] = "done"]
    /\ UNCHANGED req

(***************************************************************************)
(* Inputs.                                                                 *)
(***************************************************************************)
\* Records sent to /api/request by the concurrent calls: the spec's
\* scenarios A-D, a backdoor-shaped record and a record whose rate is a string.
RequestPayloads ==
    { Payload([rate |-> I(300), sbytes |-> I(10)]),
      Payload([sbytes |-> I(80000), protocol |-> S("tcp")]),
      Payload([ct_dst_ltm |-> I(150), state |-> S("REQ"), dpkts |-> I(0)]),
      Payload([rate |-> I(5), sbytes |-> I(500)]),
      Payload([dur |-> I(150), sbytes |-> I(120000), protocol |-> S("udp")]),
      Payload([rate |-> S("fast"), sbytes |-> I(500)]) }

\* The grid of records the rules are checked on: for every field, values on
\* both sides of each threshold, the key absent, and a value of the wrong type.
GridPayloads ==
    [rate       : {Absent, I(50), I(51), I(200), I(201), I(2000), S("fast")},
     sbytes     : {Absent, I(50000), I(50001), I(70001), I(100001), S("big")},
     protocol   : {Absent, S("TCP"), S("udp"), I(6)},
     state      : {Absent, S("req"), S("CON"), I(1)},
     ct_dst_ltm : {Absent, I(-1000), I(100), I(101), S("many")},
     dpkts      : {Absent, I(10)},
     dur        : {Absent, I(100), I(101), S("long")}]

\* The attack types the concurrent calls send to the trigger endpoint: one
\* that generates an attack record and one that generates a Normal record.
ConcurrentAttackTypes == {"dos", "normal"}

\* The address the single call of the rule check comes from.
RulesAddr == "10.0.0.1"

(***************************************************************************)
(* Spec: NumCalls calls, from any address and through either endpoint,     *)
(* interleaved at the is_blocked check; the logging sink does not raise.   *)
(***************************************************************************)
Next ==
    \E c \in Calls :
        \/ /\ Arrives(c)
           /\ \E a \in Addrs, p \in RequestPayloads :
                 handle_request_receive(c, a, p, {})
        \/ handle_request_check(c)
        \/ handle_request_detect(c)
        \/ /\ Arrives(c)
           /\ \E a \in Addrs, t \in ConcurrentAttackTypes, d \in LowDraws :
                 trigger_payload_receive(c, a, t, d, {})
        \/ trigger_payload_check(c)
        \/ trigger_payload_detect(c)

Spec == Init /\ [][Next]_vars

(***************************************************************************)
(* SpecRules: one call on a clean ledger, its record drawn from the grid   *)
(* or from every payload generate_test_payload can draw.                   *)
(***************************************************************************)
NextRules ==
    \/ /\ Arrives(1)
       /\ \E p \in GridPayloads : handle_request_receive(1, RulesAddr, p, {})
    \/ handle_request_check(1)
    \/ handle_request_detect(1)
    \/ /\ Arrives(1)
       /\ \E t \in AttackTypes, d \in Draws :
             trigger_payload_receive(1, RulesAddr, t, d, {})
    \/ trigger_payload_check(1)
    \/ trigger_payload_detect(1)

SpecRules == Init /\ [][NextRules]_vars

(***************************************************************************)
(* SpecSink: the calls of Spec with a logging sink whose writes may raise. *)
(***************************************************************************)
\* The writes of the logging sink.
SinkWrites == {"log_threat", "log_mitigation", "log_activity"}

\* For one call: no write raises, or one of them does.
SinkFaults == {{}} \cup {{w} : w \in SinkWrites}

NextSink ==
    \E c \in Calls :
        \/ /\ Arrives(c)
           /\ \E a \in Addrs, p \in RequestPayloads, f \in SinkFaults :
                 handle_request_receive(c, a, p, f)
        \/ handle_request_check(c)
        \/ handle_request_detect(c)
        \/ /\ Arrives(c)
           /\ \E a \in Addrs, t \in ConcurrentAttackTypes, f \in SinkFaults :
                 \E d \in LowDraws : trigger_payload_receive(c, a, t, d, f)
        \/ trigger_payload_check(c)
        \/ trigger_payload_detect(c)

SpecSink == Init /\ [][NextSink]_vars

(***************************************************************************)
(* The feature record of a payload, as the claims speak of it: every field *)
(* present with the right type (an absent key has its default).            *)
(***************************************************************************)
WellTyped(payload) ==
    /\ \A f \in {"rate", "sbytes", "ct_dst_ltm", "dpkts", "dur"} :
          payload[f].k \in {"absent", "int"}
    /\ \A f \in {"protocol", "state"} : payload[f].k \in {"absent", "str"}

Rate(payload) == ReadFields(payload).rate.n

Sbytes(payload) == ReadFields(payload).sbytes.n

DoSCond(payload) ==
    Rate(payload) > 200 \/ (Sbytes(payload) > 50000 /\ Rate(payload) > 50)

ExploitCond(payload) ==
    \/ Sbytes(payload) > 70000
    \/ ReadFields(payload).protocol = "tcp" /\ Sbytes(payload) > 50000

ReconCond(payload) ==
    \/ ReadFields(payload).ct_dst_ltm.n > 100
    \/ ReadFields(payload).state = "REQ" /\ ReadFields(payload).dpkts = I(0)

BackdoorCond(payload) ==
    ReadFields(payload).dur.n > 100 /\ Sbytes(payload) > 100000

\* The label of the first rule, in the order DoS, Exploit, Reconnaissance,
\* Backdoor, whose condition holds; 0 (Normal) when none does.
FirstMatchLabel(payload) ==
    CASE DoSCond(payload) -> 1
      [] ~DoSCond(payload) /\ ExploitCond(payload) -> 2
      [] ~DoSCond(payload) /\ ~ExploitCond(payload) /\ ReconCond(payload) -> 4
      [] ~DoSCond(payload) /\ ~ExploitCond(payload) /\ ~ReconCond(payload)
           /\ BackdoorCond(payload) -> 6
      [] OTHER -> 0

\* The calls whose handler ran the rules (it was not turned away as BLOCKED).
Classified == {c \in Calls : pc[c] = "done" /\ out[c].status # "BLOCKED"}

(***************************************************************************)
(* C1.  For every feature record the classifier returns the category of    *)
(* the first rule, in the order DoS, Exploit, Reconnaissance, Backdoor,    *)
(* whose condition the record satisfies, and Normal when none is; a record *)
(* that satisfies both the DoS and the Exploit condition is DoS.           *)
(***************************************************************************)
C1_FirstMatchWins ==
    \A c \in Classified :
        WellTyped(req[c].payload) =>
            /\ ~out[c].verdict.error
            /\ out[c].verdict.attack_label = FirstMatchLabel(req[c].payload)
            /\ out[c].verdict.is_attack = (FirstMatchLabel(req[c].payload) # 0)
            /\ (out[c].verdict.attack_label = 0)
                  = (out[c].verdict.attack_name = "Normal")
            /\ DoSCond(req[c].payload) /\ ExploitCond(req[c].payload)
                  => out[c].verdict.attack_name = "DoS"

\* A record satisfying both the DoS and the Exploit condition was classified.
C1_Witness ==
    \E c \in Classified :
        /\ WellTyped(req[c].payload)
        /\ DoSCond(req[c].payload)
        /\ ExploitCond(req[c].payload)
        /\ out[c].verdict.attack_name = "DoS"

\* The calls whose rules ran to a verdict.
Judged == {c \in Classified : ~out[c].verdict.error}

(***************************************************************************)
(* C2, as claimed.  Every classification result has a category from        *)
(* {Normal, DoS, Exploit, Reconnaissance, Backdoor} paired with its label  *)
(* 0, 1, 2, 4, 6; no other category name is reported.                      *)
(***************************************************************************)
C2_CategoriesAsClaimed ==
    \A c \in Judged :
        <<out[c].verdict.attack_name, out[c].verdict.attack_label>>
            \in { <<"Normal", 0>>, <<"DoS", 1>>, <<"Exploit", 2>>,
                  <<"Reconnaissance", 4>>, <<"Backdoor", 6>> }

(***************************************************************************)
(* C2, amended.  Every classification result has a category from          *)
(* {Normal, DoS, Exploits, Reconnaissance, Backdoor} paired with its label *)
(* 0, 1, 2, 4, 6; a THREAT response reports that same pair, no response    *)
(* reports another category name, and the labels 3 and 5 never occur.      *)
(***************************************************************************)
C2_ClosedCategories ==
    /\ \A c \in Judged :
          /\ <<out[c].verdict.attack_name, out[c].verdict.attack_label>>
                \in { <<"Normal", 0>>, <<"DoS", 1>>, <<"Exploits", 2>>,
                      <<"Reconnaissance", 4>>, <<"Backdoor", 6>> }
          /\ out[c].status = "THREAT" =>
                /\ out[c].attack_type = out[c].verdict.attack_name
                /\ out[c].attack_label = out[c].verdict.attack_label
    /\ \A c \in Calls :
          /\ out[c].attack_type \in
                {"-", "Normal", "DoS", "Exploits", "Reconnaissance", "Backdoor"}
          /\ out[c].attack_label \notin {3, 5}
          /\ out[c].verdict.attack_label \notin {3, 5}

\* A THREAT response reported the Exploit rule's category with label 2.
C2_Witness ==
    \E c \in Judged :
        /\ out[c].status = "THREAT"
        /\ out[c].attack_type = "Exploits"
        /\ out[c].attack_label = 2

(***************************************************************************)
(* C3.  The confidence of a matched rule never exceeds the rule's ceiling: *)
(* at most 0.95 for DoS and Exploit, at most 0.92 for Reconnaissance,      *)
(* exactly 0.88 for Backdoor; rate = 2000 gives DoS with exactly 0.95.     *)
(* The response reports the confidence the rule computed.                  *)
(***************************************************************************)
C3_ConfidenceCeiling ==
    \A c \in Judged :
        /\ out[c].verdict.attack_label \in {1, 2} =>
              out[c].verdict.confidence <= 95000
        /\ out[c].verdict.attack_label = 4 =>
              out[c].verdict.confidence <= 92000
        /\ out[c].verdict.attack_label = 6 =>
              out[c].verdict.confidence = 88000
        /\ out[c].status = "THREAT" =>
              out[c].confidence = out[c].verdict.confidence
        /\ req[c].payload.rate = I(2000) =>
              /\ out[c].verdict.attack_name = "DoS"
              /\ out[c].verdict.confidence = 95000

\* A record with rate = 2000 (0.70 + rate/1000 = 2.70) was reported as DoS
\* with confidence 0.95.
C3_Witness ==
    \E c \in Judged :
        /\ req[c].payload.rate = I(2000)
        /\ 70000 + 100 * req[c].payload.rate.n = 270000
        /\ out[c].status = "THREAT"
        /\ out[c].attack_type = "DoS"
        /\ out[c].confidence = 95000

(***************************************************************************)
(* C4.  Every record that matches none of the four attack rules is         *)
(* classified Normal, and every response that reports a confidence for it  *)
(* (the request endpoint's and the trigger-payload endpoint's) reports     *)
(* 0.50.                                                                   *)
(***************************************************************************)
C4_NormalConfidenceHalf ==
    \A c \in Judged :
        FirstMatchLabel(req[c].payload) = 0 /\ WellTyped(req[c].payload) =>
            /\ out[c].status = "NORMAL"
            /\ out[c].verdict.attack_name = "Normal"
            /\ out[c].verdict.confidence = 50000
            /\ out[c].confidence # -1 => out[c].confidence = 50000

\* The record of call c matches an attack rule.
AttackRecord(c) ==
    WellTyped(req[c].payload) /\ FirstMatchLabel(req[c].payload) # 0

\* The calls that have arrived for address a.
CallsFor(a) == {c \in Calls : pc[c] # "idle" /\ req[c].src_ip = a}

(***************************************************************************)
(* C5.  Once an address is blocked, a decide call for it, with any record  *)
(* whatsoever, returns BLOCKED and leaves the ledger unchanged; the call   *)
(* performs no classification, no policy invocation and no log write.      *)
(* Stated on the step that takes the call past line 75.                    *)
(***************************************************************************)
C5_BlockedShortCircuit ==
    [][\A c \in Calls :
          (/\ pc[c] = "received"
           /\ pc'[c] # "received"
           /\ ledger[req[c].src_ip].blocked)
          => /\ pc'[c] = "done"
             /\ out'[c].status = "BLOCKED"
             /\ out'[c].verdict = NoVerdict
             /\ out'[c].policy_calls = 0
             /\ out'[c].logs = {}
             /\ out'[c].mitigation = "-"
             /\ ledger' = ledger]_vars

\* A call carrying a record whose rate is a string was turned away as BLOCKED
\* (not as an error) from an address blocked with one violation.
C5_Witness ==
    \E c \in Calls :
        /\ out[c].status = "BLOCKED"
        /\ Classify(req[c].payload).error
        /\ ledger[req[c].src_ip].blocked
        /\ ledger[req[c].src_ip].violation_count = 1

(***************************************************************************)
(* C6, as claimed.  A source address that sends two attack records one     *)
(* after the other moves Clean -> Blocked on the first call and            *)
(* Blocked -> EscalatedBlocked on the second; an address with exactly one  *)
(* violation is Blocked and not EscalatedBlocked.                          *)
(***************************************************************************)
C6_EscalatesAsClaimed ==
    /\ \A c1, c2 \in Calls :
          (/\ pc[c1] = "done" /\ pc[c2] = "done"
           /\ c1 \in req[c2].after
           /\ req[c1].src_ip = req[c2].src_ip
           /\ CallsFor(req[c1].src_ip) = {c1, c2}
           /\ AttackRecord(c1) /\ AttackRecord(c2))
          => ledger[req[c1].src_ip].last_action = "EscalatedBlock"
    /\ \A a \in Addrs :
          ledger[a].violation_count = 1 =>
              ledger[a].blocked /\ ledger[a].last_action = "Block"

(***************************************************************************)
(* C6, amended.  A source address that sends two attack records one after  *)
(* the other moves Clean -> Blocked on the first call and stays Blocked on *)
(* the second: the second call returns BLOCKED without invoking the        *)
(* policy, and violation_count stays 1.  An address whose calls all came   *)
(* one after the other is never EscalatedBlocked, and an address with      *)
(* exactly one violation is Blocked and not EscalatedBlocked.              *)
(***************************************************************************)
C6_SequentialStaysBlocked ==
    /\ \A c \in Calls :
          (/\ pc[c] = "done"
           /\ AttackRecord(c)
           /\ \A d \in CallsFor(req[c].src_ip) \ {c} : out[d].policy_calls = 0)
          => /\ out[c].status = "THREAT"
             /\ out[c].mitigation = "Block"
             /\ ledger[req[c].src_ip] =
                  [blocked |-> TRUE, violation_count |-> 1,
                   last_action |-> "Block"]
    /\ \A c1, c2 \in Calls :
          (/\ pc[c1] = "done" /\ pc[c2] = "done"
           /\ c1 \in req[c2].after
           /\ req[c1].src_ip = req[c2].src_ip
           /\ out[c1].status = "THREAT")
          => /\ out[c2].status = "BLOCKED"
             /\ out[c2].policy_calls = 0
    /\ \A a \in Addrs :
          (\A c1, c2 \in CallsFor(a) :
              c1 # c2 => c1 \in req[c2].after \/ c2 \in req[c1].after)
          => /\ ledger[a].last_action # "EscalatedBlock"
             /\ ledger[a].violation_count <= 1
    /\ \A a \in Addrs :
          ledger[a].violation_count = 1 =>
              ledger[a].blocked /\ ledger[a].last_action = "Block"

\* Two attack records from one address, the second sent after the first was
\* answered: THREAT then BLOCKED, and the address Blocked with one violation.
C6_Witness ==
    \E c1, c2 \in Calls :
        /\ pc[c1] = "done" /\ pc[c2] = "done"
        /\ c1 \in req[c2].after
        /\ req[c1].src_ip = req[c2].src_ip
        /\ AttackRecord(c1) /\ AttackRecord(c2)
        /\ out[c1].status = "THREAT"
        /\ out[c2].status = "BLOCKED"
        /\ ledger[req[c1].src_ip] =
             [blocked |-> TRUE, violation_count |-> 1, last_action |-> "Block"]

(***************************************************************************)
(* C7.  When N decide calls carrying attack records for the same           *)
(* previously-clean address run concurrently (none arrived after another   *)
(* had responded), then once all have responded the address's             *)
(* violation_count is exactly N and the address is blocked.                *)
(***************************************************************************)
C7_NoLostUpdate ==
    \A a \in Addrs :
        (/\ CallsFor(a) # {}
         /\ \A c \in CallsFor(a) :
               /\ pc[c] = "done"
               /\ AttackRecord(c)
               /\ req[c].after \cap CallsFor(a) = {})
        => /\ ledger[a].violation_count = Cardinality(CallsFor(a))
           /\ ledger[a].blocked

(***************************************************************************)
(* C8.  A decide call whose record is classified Normal for a non-blocked  *)
(* address returns NORMAL with no mitigation decision, never invokes the   *)
(* mitigation policy, and leaves every ledger entry unchanged.             *)
(* Stated on the step that runs the rules and responds.                    *)
(***************************************************************************)
C8_NormalIsFrame ==
    [][\A c \in Calls :
          (/\ pc[c] = "passed"
           /\ pc'[c] = "done"
           /\ out'[c].verdict.attack_name = "Normal")
          => /\ out'[c].status = "NORMAL"
             /\ out'[c].mitigation = "-"
             /\ out'[c].policy_calls = 0
             /\ ledger' = ledger]_vars

\* A Normal record was answered NORMAL, no policy call made, while another
\* address was blocked and its own was clean.
C8_Witness ==
    \E c \in Calls, a \in Addrs :
        /\ out[c].status = "NORMAL"
        /\ out[c].verdict.attack_name = "Normal"
        /\ out[c].policy_calls = 0
        /\ ledger[req[c].src_ip] = NewEntry
        /\ a # req[c].src_ip
        /\ ledger[a].blocked

(***************************************************************************)
(* C9.  For every raw input record, also when rate, sbytes, protocol,      *)
(* state, ct_dst_ltm, dpkts or dur is absent or of the wrong type, the     *)
(* decide call ends with status BLOCKED, THREAT or NORMAL and never with   *)
(* an error outcome.                                                       *)
(***************************************************************************)
C9_NeverErrors ==
    \A c \in Calls :
        pc[c] = "done" =>
            /\ out[c].status \in {"BLOCKED", "THREAT", "NORMAL"}
            /\ out[c].http # 500

(***************************************************************************)
(* C10.  In every reachable ledger state and for every source address,     *)
(* blocked is true iff last_action is Block or EscalatedBlock; and         *)
(* is_blocked(address) holds iff the policy has returned Block or          *)
(* EscalatedBlock for that address to some call.                           *)
(***************************************************************************)
C10_BlockedIffLastAction ==
    \A a \in Addrs :
        /\ ledger[a].blocked
              = (ledger[a].last_action \in {"Block", "EscalatedBlock"})
        /\ is_blocked(ledger, a)
              = (\E c \in CallsFor(a) :
                    out[c].mitigation \in {"Block", "EscalatedBlock"})
        /\ (ledger[a].last_action = "EscalatedBlock")
              = (\E c \in CallsFor(a) : out[c].mitigation = "EscalatedBlock")

\* An address escalated by two racing attack calls, and a clean one.
C10_Witness ==
    \E a, b \in Addrs :
        /\ ledger[a].blocked
        /\ ledger[a].last_action = "EscalatedBlock"
        /\ ledger[a].violation_count = 2
        /\ ~ledger[b].blocked
        /\ ledger[b].last_action = "None"

(***************************************************************************)
(* C11.  Blocks are sticky.                                                *)
(***************************************************************************)
\* C11: no step of any call unblocks an address or lowers its
\* violation_count: an address that is blocked before the step is blocked
\* after it, and its violation_count does not decrease.
C11_BlocksAreSticky ==
    [][\A a \in Addrs :
          /\ is_blocked(ledger, a) => is_blocked(ledger', a)
          /\ ledger'[a].violation_count >= ledger[a].violation_count]_vars

\* A call that passed the check before its address was blocked has answered
\* NORMAL after the block, and the address is still blocked.
C11_Witness ==
    \E c \in Calls :
        /\ pc[c] = "done"
        /\ out[c].status = "NORMAL"
        /\ is_blocked(ledger, req[c].src_ip)
        /\ ledger[req[c].src_ip].violation_count = 1

(***************************************************************************)
(* C12.  First offence.                                                    *)
(***************************************************************************)
\* The step of call c that runs the rules and answers.
Detects(c) == pc[c] = "passed" /\ pc'[c] = "done"

\* The step of call c past the is_blocked check.
Checks(c) == pc[c] = "received" /\ pc'[c] # "received"

\* C12: a call whose record is classified as an attack while its address is
\* not blocked raises the address's violation_count by exactly 1, answers
\* THREAT with the action Block and leaves the address blocked; and a call
\* for that address that reaches the is_blocked check after such an answer
\* is answered BLOCKED.
C12_FirstOffence ==
    [][\A c \in Calls :
          /\ (/\ Detects(c)
               /\ ~is_blocked(ledger, req[c].src_ip)
               /\ out'[c].verdict.is_attack)
              => /\ ledger'[req[c].src_ip].violation_count
                       = ledger[req[c].src_ip].violation_count + 1
                 /\ out'[c].status = "THREAT"
                 /\ out'[c].http = 200
                 /\ out'[c].mitigation = "Block"
                 /\ out'[c].policy_calls = 1
                 /\ is_blocked(ledger', req[c].src_ip)
          /\ (/\ Checks(c)
               /\ \E d \in CallsFor(req[c].src_ip) \ {c} :
                      pc[d] = "done" /\ out[d].mitigation = "Block")
              => /\ out'[c].status = "BLOCKED"
                 /\ pc'[c] = "done"]_vars

\* A generated attack record was answered THREAT with Block, and a Normal
\* record sent from the same address afterwards was answered BLOCKED.
C12_Witness ==
    \E c1, c2 \in Calls :
        /\ req[c1].ep = "trigger"
        /\ out[c1].status = "THREAT"
        /\ out[c1].mitigation = "Block"
        /\ c1 \in req[c2].after
        /\ req[c1].src_ip = req[c2].src_ip
        /\ ~AttackRecord(c2)
        /\ out[c2].status = "BLOCKED"
        /\ ledger[req[c1].src_ip].violation_count = 1

(***************************************************************************)
(* C13.  A failure of the logging sink never changes the outcome of the    *)
(* decision path.                                                          *)
(***************************************************************************)
\* C13: a call during which a write of the logging sink raises still answers
\* what its verdict calls for, THREAT for an attack record and NORMAL
\* otherwise, and for an attack record the policy has still been applied.
C13_SinkFailureIsHarmless ==
    \A c \in Judged :
        req[c].raises # {} =>
            /\ out[c].status
                  = (IF out[c].verdict.is_attack THEN "THREAT" ELSE "NORMAL")
            /\ out[c].verdict.is_attack => out[c].policy_calls = 1

(***************************************************************************)
(* C14.  A call that ends in an error leaves the ledger as it was.         *)
(***************************************************************************)
\* C14: the step of a call that answers with an error (500) leaves every
\* ledger entry as it was: no call both changes the ledger and reports an
\* error.
C14_ErrorLeavesLedger ==
    [][\A c \in Calls :
          (Detects(c) /\ out'[c].status = "ERROR") => ledger' = ledger]_vars

(***************************************************************************)
(* C15.  The confidence of a matched rule is in [0, 1] and not below the   *)
(* rule's additive base.                                                   *)
(***************************************************************************)
\* The additive base of the rule of each label (lines 100, 107, 114), in
\* hundred-thousandths.
RuleBase(label) ==
    CASE label = 1 -> 70000
      [] label = 2 -> 75000
      [] label = 4 -> 80000
      [] OTHER -> 0

\* C15: for every record that matches an attack rule the confidence lies in
\* [0, 1] and is at least the additive base of the rule: 0.70 for DoS, 0.75
\* for Exploit, 0.80 for Reconnaissance, whatever values the handler accepted
\* for rate, sbytes and ct_dst_ltm.
C15_ConfidenceAtLeastBase ==
    \A c \in Judged :
        out[c].verdict.is_attack =>
            /\ out[c].verdict.confidence >= 0
            /\ out[c].verdict.confidence <= 100000
            /\ out[c].verdict.confidence >= RuleBase(out[c].verdict.attack_label)

(***************************************************************************)
(* C16.  Every category is producible.                                     *)
(***************************************************************************)
\* The records the rules are tried on: the grid, and every payload
\* generate_test_payload can draw.
TriedRecords ==
    GridPayloads
        \cup {generate_test_payload(t, d) : t \in AttackTypes, d \in Draws}

\* The categories of the rules, as the code names them, with their labels.
Categories ==
    { <<"Normal", 0>>, <<"DoS", 1>>, <<"Exploits", 2>>,
      <<"Reconnaissance", 4>>, <<"Backdoor", 6>> }

\* Verdict v is of category k.
OfCategory(v, k) ==
    ~v.error /\ v.attack_name = k[1] /\ v.attack_label = k[2]

\* C16: each of the five categories is the verdict of some record, the one
\* of the call just judged or another one; in particular some record with
\* dur > 100 and sbytes > 100000 is classified Backdoor with label 6 and
\* confidence 0.88: the Backdoor rule is not shadowed by the rules before it.
C16_EveryCategoryProducible ==
    \A c \in Judged :
        /\ \A k \in Categories :
              \/ OfCategory(out[c].verdict, k)
              \/ \E p \in TriedRecords : OfCategory(Classify(p), k)
        /\ \/ out[c].verdict = BackdoorVerdict
           \/ \E p \in TriedRecords :
                 /\ WellTyped(p) /\ BackdoorCond(p)
                 /\ Classify(p) = BackdoorVerdict

\* No call is ever classified Backdoor, although records with dur > 100 and
\* sbytes > 100000 are sent: each of them is an Exploit or a DoS.
C16_BackdoorIsShadowed ==
    \A c \in Judged :
        /\ out[c].verdict.attack_label # 6
        /\ (WellTyped(req[c].payload) /\ BackdoorCond(req[c].payload))
              => out[c].verdict.attack_label \in {1, 2}

(***************************************************************************)
(* C17.  At most one THREAT per source address.                            *)
(***************************************************************************)
\* C17: in every interleaving of the calls, at most one call per source
\* address is answered THREAT, and the policy is invoked at most once per
\* address.
C17_AtMostOneThreat ==
    \A a \in Addrs :
        /\ Cardinality({c \in CallsFor(a) : out[c].status = "THREAT"}) <= 1
        /\ Cardinality({c \in CallsFor(a) : out[c].policy_calls > 0}) <= 1

(***************************************************************************)
(* C18.  A generated payload is classified as the attack type asked for.   *)
(***************************************************************************)
\* The category, as the code names it, that attack_type asks for.
Requested(attack_type) ==
    CASE attack_type = "dos" -> "DoS"
      [] attack_type = "exploit" -> "Exploits"
      [] attack_type = "reconnaissance" -> "Reconnaissance"
      [] attack_type = "backdoor" -> "Backdoor"
      [] OTHER -> "Normal"

\* C18: for every attack_type in {dos, exploit, reconnaissance, backdoor} and
\* every payload generate_test_payload draws for it, the rules give the
\* category asked for; for any other attack_type they give Normal.
C18_GeneratedAsRequested ==
    \A c \in Judged :
        req[c].ep = "trigger" =>
            out[c].verdict.attack_name = Requested(req[c].attack_type)

(***************************************************************************)
(* C19.  handle_request and trigger_payload are the same decision          *)
(* procedure.                                                              *)
(***************************************************************************)
\* The decision a response carries: the status, the category, label and
\* confidence it reports (those of the handler's locals where the response
\* has no such key), the action of its MitigationDecision and the number of
\* policy calls behind it.
Decision(o) ==
    [status |-> o.status,
     category |-> IF o.attack_type # "-" THEN o.attack_type
                  ELSE o.verdict.attack_name,
     label |-> IF o.attack_label # -1 THEN o.attack_label
               ELSE o.verdict.attack_label,
     confidence |-> IF o.confidence # -1 THEN o.confidence
                    ELSE o.verdict.confidence,
     mitigation |-> o.mitigation,
     policy_calls |-> o.policy_calls]

\* C19: given the same payload, source address and ledger, handle_request and
\* trigger_payload take the same branch at the is_blocked check, return the
\* same status, category, label and confidence, make the same policy call
\* and leave the same ledger.
C19_SameDecisionProcedure ==
    \A c \in Calls :
        /\ pc[c] = "received" =>
              handle_request_blocked(ledger, req[c].src_ip)
                  = trigger_payload_blocked(ledger, req[c].src_ip)
        /\ pc[c] = "passed" =>
              LET h == handle_request_decide(ledger, req[c].src_ip,
                                             req[c].payload, req[c].raises)
                  t == trigger_payload_decide(ledger, req[c].src_ip,
                                              req[c].payload, req[c].raises)
              IN  /\ Decision(h.out) = Decision(t.out)
                  /\ h.ledger = t.ledger

(***************************************************************************)
(* C20.  A call touches only the ledger entry of its own address.          *)
(***************************************************************************)
\* The values a ledger entry takes.
EntryValues ==
    { NewEntry,
      [blocked |-> TRUE, violation_count |-> 1, last_action |-> "Block"],
      [blocked |-> TRUE, violation_count |-> 2,
       last_action |-> "EscalatedBlock"] }

\* What call c does past the check on ledger l: the ledger and the response.
Decide(c, l) ==
    IF req[c].ep = "request"
    THEN handle_request_decide(l, req[c].src_ip, req[c].payload, req[c].raises)
    ELSE trigger_payload_decide(l, req[c].src_ip, req[c].payload,
                                req[c].raises)

\* Whether call c is stopped at the is_blocked check on ledger l.
Blocked(c, l) ==
    IF req[c].ep = "request"
    THEN handle_request_blocked(l, req[c].src_ip)
    ELSE trigger_payload_blocked(l, req[c].src_ip)

\* C20: a step of a call for address A leaves the blocked flag, the
\* violation_count and the last_action of every other address B as they
\* were, and what the step does (the branch at the check, the response, the
\* new entry of A) is the same whatever the entry of B holds.
C20_OnlyOwnEntry ==
    [][\A c \in Calls :
          pc'[c] # pc[c] =>
              \A b \in Addrs \ {req'[c].src_ip} :
                  /\ ledger'[b] = ledger[b]
                  /\ \A e \in EntryValues :
                        LET l == [ledger EXCEPT ![b] = e]
                        IN  /\ Checks(c) => Blocked(c, l) = (pc'[c] = "done")
                            /\ Detects(c) =>
                                  /\ Decide(c, l).out = out'[c]
                                  /\ Decide(c, l).ledger[req[c].src_ip]
                                        = ledger'[req[c].src_ip]
                                  /\ Decide(c, l).ledger[b] = e]_vars

\* Two addresses each sent one attack record: each call was answered THREAT
\* with Block and each entry counts its own single violation.
C20_Witness ==
    \E c1, c2 \in Calls :
        /\ req[c1].src_ip # req[c2].src_ip
        /\ out[c1].status = "THREAT" /\ out[c2].status = "THREAT"
        /\ out[c1].mitigation = "Block" /\ out[c2].mitigation = "Block"
        /\ \A a \in Addrs : ledger[a].violation_count = 1

====
